---------------------------- MODULE Spec2Model ----------------------------
(***************************************************************************)
(* Verification model of ignis/gate_errors.ipynb.                          *)
(*                                                                         *)
(* The notebook holds (a) two code cells, one of import statements and one *)
(* empty, and (b) the derivation of the excited-state population after the *)
(* amplitude-error amplification sequence X90p-[X90p-X90p]^n.              *)
(*                                                                         *)
(* The derivation is modelled in exact arithmetic.  Complex numbers are    *)
(* elements of the ring Z[zeta][1/2], zeta = exp(i*pi/M), M a power of     *)
(* two, so that zeta^M = -1 and 1, zeta, ..., zeta^(M-1) is a basis: an    *)
(* element is a coefficient tuple c and an exponent e, standing for        *)
(* (c[1] + c[2]*zeta + ... + c[M]*zeta^(M-1)) / 2^e.  The rotation error   *)
(* is dtheta = t*2*pi/M + eps, t on the grid 0..M-1 and eps a first-order  *)
(* infinitesimal (eps^2 = 0): every quantity is a dual number v + d*eps,   *)
(* v its value at the grid point and d its derivative in dtheta there.     *)
(***************************************************************************)
EXTENDS Integers, Sequences, FiniteSets

\* dtheta grid: the step pi/2 is halved Res+1 times.
Res == 1
\* Largest number n of [X90p-X90p] groups.
MaxN == 4
\* Small rotation errors are err / 2^ErrExp radian, |err| <= MaxErr.
MaxErr == 2
ErrExp == 10

M == 4 * (2 ^ Res)

-----------------------------------------------------------------------------
(* Exact complex arithmetic in Z[zeta][1/2].                               *)

Idx == 1..M

\* Ring elements, and the dual numbers over them.  The arithmetic is written
\* as functions on these sets: a function is applied to the values of its
\* arguments.
Ring == [c : Seq(Int), e : Nat]

\* A function on Idx as the tuple of its values.
Coefs(f) == SubSeq(f, 1, M)

AllEven(c) == \A k \in Idx : c[k] % 2 = 0

\* Lowest terms: the representation of a ring element is then unique.
RECURSIVE Norm(_)
Norm(x) ==
    IF x.e > 0 /\ AllEven(x.c)
    THEN Norm([c |-> Coefs([k \in Idx |-> x.c[k] \div 2]), e |-> x.e - 1])
    ELSE x

\* The integer num divided by 2^e.
Rat(num, e) ==
    Norm([c |-> Coefs([k \in Idx |-> IF k = 1 THEN num ELSE 0]), e |-> e])

Zero == Rat(0, 0)

One == Rat(1, 0)

\* zeta^j for any integer j (zeta^M = -1).
Zeta(j) ==
    LET r == j % (2 * M)
    IN  [c |-> Coefs([k \in Idx |-> IF k - 1 = r THEN 1
                                    ELSE IF k - 1 + M = r THEN -1 ELSE 0]),
         e |-> 0]

\* The imaginary unit and its inverse.
ImagI == Zeta(M \div 2)
MinusI == Zeta(-(M \div 2))

\* x + y for x.e >= y.e: y is brought to the exponent of x.
AddTo(x, y) ==
    Norm([c |-> Coefs([k \in Idx |-> x.c[k] + (2 ^ (x.e - y.e)) * y.c[k]]),
          e |-> x.e])

Add[x \in Ring, y \in Ring] == IF x.e >= y.e THEN AddTo(x, y) ELSE AddTo(y, x)

IntMul[h \in Int, x \in Ring] ==
    Norm([c |-> Coefs([k \in Idx |-> h * x.c[k]]), e |-> x.e])

Neg[x \in Ring] == IntMul[-1, x]

Sub[x \in Ring, y \in Ring] == Add[x, Neg[y]]

Half[x \in Ring] == Norm([c |-> x.c, e |-> x.e + 1])

\* Coefficient j (0 .. 2M-1) of a tuple extended by zeta^(M+k) = -zeta^k.
At(b, j) == IF j < M THEN b[j + 1] ELSE -b[j - M + 1]

\* Coefficient k of the product: the sum of a[i] * b[k - i] over lo <= i <= hi.
RECURSIVE ConvSum(_, _, _, _, _)
ConvSum(a, b, k, lo, hi) ==
    IF lo = hi THEN a[lo + 1] * At(b, (k - lo) % (2 * M))
    ELSE ConvSum(a, b, k, lo, (lo + hi) \div 2)
         + ConvSum(a, b, k, (lo + hi) \div 2 + 1, hi)

Mul[x \in Ring, y \in Ring] ==
    Norm([c |-> Coefs([k \in Idx |-> ConvSum(x.c, y.c, k - 1, 0, M - 1)]),
          e |-> x.e + y.e])

\* Complex conjugate: zeta^k -> zeta^(-k) = -zeta^(M-k).
Conj[x \in Ring] ==
    [c |-> Coefs([k \in Idx |-> IF k = 1 THEN x.c[1] ELSE -x.c[M - k + 2]]),
     e |-> x.e]

IsRational(x) == \A k \in Idx : k > 1 => x.c[k] = 0

\* Order on the rational elements.
RatLess(x, y) == x.c[1] * (2 ^ y.e) < y.c[1] * (2 ^ x.e)

RatAbs(x) == IF x.c[1] < 0 THEN Neg[x] ELSE x

RatSign(x) == IF x.c[1] < 0 THEN -1 ELSE IF x.c[1] > 0 THEN 1 ELSE 0

-----------------------------------------------------------------------------
(* Dual numbers v + d*eps over the ring: first-order expansion in dtheta.  *)

DualRing == [v : Ring, d : Ring]

Dual(v, d) == [v |-> v, d |-> d]

DConst(x) == Dual(x, Zero)

DZero == DConst(Zero)
DOne == DConst(One)
DHalf == DConst(Rat(1, 1))

DAdd[x \in DualRing, y \in DualRing] == Dual(Add[x.v, y.v], Add[x.d, y.d])

DNeg[x \in DualRing] == Dual(Neg[x.v], Neg[x.d])

DSub[x \in DualRing, y \in DualRing] == DAdd[x, DNeg[y]]

DMul[x \in DualRing, y \in DualRing] ==
    Dual(Mul[x.v, y.v], Add[Mul[x.v, y.d], Mul[x.d, y.v]])

DHalve[x \in DualRing] == Dual(Half[x.v], Half[x.d])

DIntMul[h \in Int, x \in DualRing] == Dual(IntMul[h, x.v], IntMul[h, x.d])

DConj[x \in DualRing] == Dual(Conj[x.v], Conj[x.d])

-----------------------------------------------------------------------------
(* Angles g*pi/M + (h/2)*eps, and their exponentials, cosines and sines.   *)

Angle(g, h) == [g |-> g, h |-> h]

AngleSum(A, B) == Angle(A.g + B.g, A.h + B.h)

Times(k, A) == Angle(k * A.g, k * A.h)

\* The rotation error dtheta = t*2*pi/M + eps.
DTheta(t) == Angle(2 * t, 2)

QuarterPi == Angle(M \div 4, 0)
HalfPi == Angle(M \div 2, 0)
Pi == Angle(M, 0)

\* Faulty variant of HalfAngle: the whole error dtheta in the half angle.
HalfAngleWholeError(t) == AngleSum(QuarterPi, Angle(2 * t, 2))

\* Faulty variant of HalfAngle: no response to the error in first order.
HalfAngleNoError(t) == AngleSum(QuarterPi, Angle(t, 0))

\* pi/4 + dtheta/2, half the rotation angle of the miscalibrated gate.
HalfAngle(t) == AngleSum(QuarterPi, Angle(t, 1))

\* exp(s*i*A) for s = 1 or -1: zeta^(s*g) * (1 + s*i*(h/2)*eps).
ExpI(s, A) ==
    LET v == Zeta(s * A.g)
    IN  Dual(v, Half[IntMul[A.h, Mul[Zeta(s * (M \div 2)), v]]])

Cos(A) == DHalve[DAdd[ExpI(1, A), ExpI(-1, A)]]

Sin(A) == DMul[DConst(MinusI), DHalve[DSub[ExpI(1, A), ExpI(-1, A)]]]

\* (-1)^n
Sgn(n) == IF n % 2 = 0 THEN 1 ELSE -1

-----------------------------------------------------------------------------
(* 2x2 operators and state vectors.                                        *)

I2 == << <<DOne, DZero>>, <<DZero, DOne>> >>

SigmaX == << <<DZero, DOne>>, <<DOne, DZero>> >>

MScale(s, A) ==
    << <<DMul[s, A[1][1]], DMul[s, A[1][2]]>>,
       <<DMul[s, A[2][1]], DMul[s, A[2][2]]>> >>

MAdd(A, B) ==
    << <<DAdd[A[1][1], B[1][1]], DAdd[A[1][2], B[1][2]]>>,
       <<DAdd[A[2][1], B[2][1]], DAdd[A[2][2], B[2][2]]>> >>

MSub(A, B) ==
    << <<DSub[A[1][1], B[1][1]], DSub[A[1][2], B[1][2]]>>,
       <<DSub[A[2][1], B[2][1]], DSub[A[2][2], B[2][2]]>> >>

\* Entry (r, q) of the product A B.
MEntry(A, B, r, q) == DAdd[DMul[A[r][1], B[1][q]], DMul[A[r][2], B[2][q]]]

MMul(A, B) ==
    << <<MEntry(A, B, 1, 1), MEntry(A, B, 1, 2)>>,
       <<MEntry(A, B, 2, 1), MEntry(A, B, 2, 2)>> >>

MVec(A, x) ==
    << DAdd[DMul[A[1][1], x[1]], DMul[A[1][2], x[2]]],
       DAdd[DMul[A[2][1], x[1]], DMul[A[2][2], x[2]]] >>

\* Faulty variant of Ket0: the qubit starts in |1>.
Ket1 == <<DZero, DOne>>

\* The ground state |0>.
Ket0 == <<DOne, DZero>>

\* The miscalibrated gate U = exp(-i (pi/2 + dtheta) sigma_X / 2), as the
\* exponential of a matrix with eigenvalues +1 and -1:
\* exp(-i a) (I + sigma_X)/2 + exp(i a) (I - sigma_X)/2.
Gate(t) ==
    LET a == HalfAngle(t)
    IN  MAdd(MScale(DHalve[ExpI(-1, a)], MAdd(I2, SigmaX)),
             MScale(DHalve[ExpI(1, a)], MSub(I2, SigmaX)))

\* The notebook's expansion of the gate: cos(a) I - sin(a) sigma_X.
X90pEuler(t) ==
    LET a == HalfAngle(t)
    IN  MSub(MScale(Cos(a), I2), MScale(Sin(a), SigmaX))

\* n pi/2 + n dtheta + pi/4 + dtheta/2
PowAngle(n, t) ==
    AngleSum(AngleSum(Times(n, HalfPi), Times(n, DTheta(t))),
             AngleSum(QuarterPi, Angle(t, 1)))

\* The notebook's expansion of X90p^(2n+1).
X90pPowEuler(n, t) ==
    LET A == PowAngle(n, t)
    IN  MSub(MScale(Cos(A), I2), MScale(Sin(A), SigmaX))

\* Faulty variant of Population: the population of |0>.
PopulationGround(x) == DMul[x[1], DConj[x[1]]]

\* Population of |1> in the state x.
Population(x) == DMul[x[2], DConj[x[2]]]

\* P = sin^2(n pi/2 + n dtheta + pi/4 + dtheta/2)
PopSinSquared(n, t) == DMul[Sin(PowAngle(n, t)), Sin(PowAngle(n, t))]

\* P = 1/2 - 1/2 cos(n pi + 2 n dtheta + pi/2 + dtheta)
PopCos(n, t) ==
    LET A == AngleSum(AngleSum(Times(n, Pi), Times(2 * n, DTheta(t))),
                      AngleSum(HalfPi, DTheta(t)))
    IN  DSub[DHalf, DHalve[Cos(A)]]

\* P = 1/2 + ((-1)^n / 2) sin(2 n dtheta + dtheta)
PopSin(n, t) ==
    LET A == AngleSum(Times(2 * n, DTheta(t)), DTheta(t))
    IN  DAdd[DHalf, DIntMul[Sgn(n), DHalve[Sin(A)]]]

SmallErrs == (-MaxErr)..MaxErr

\* P ~ 1/2 + ((-1)^n dtheta / 2) (2n+1), at dtheta = err / 2^ErrExp.
PopSmallAngle(n, err) ==
    Add[Rat(1, 1), Rat(Sgn(n) * err * (2 * n + 1), 1 + ErrExp)]

\* The first-order expansion p.v + p.d * dtheta, at dtheta = err / 2^ErrExp.
FirstOrder(p, err) == Add[p.v, Mul[p.d, Rat(err, ErrExp)]]

-----------------------------------------------------------------------------
(* The notebook's cells.  A code cell's source is its statements; comments *)
(* and blank lines are not statements.                                     *)

Markdown == [cell_type |-> "markdown", source |-> << >>]

Import(names) == [kind |-> "import", binds |-> names, calls |-> {}, out |-> << >>]

ImportCell ==
    [cell_type |-> "code",
     source |-> << Import({"np"}),
                   Import({"time"}),
                   Import({"qiskit"}),
                   Import({"QuantumRegister", "QuantumCircuit",
                           "ClassicalRegister", "Aer"}),
                   Import({"noise"}),
                   Import({"plot_histogram"}),
                   Import({"complete_meas_cal", "CompleteMeasFitter",
                           "MeasurementFilter"}) >>]

\* Faulty variant of EmptyCell: a last cell that builds the calibration
\* circuits.
CellWithCall ==
    [cell_type |-> "code",
     source |-> << [kind |-> "call", binds |-> {"meas_calibs", "state_labels"},
                    calls |-> {"complete_meas_cal"}, out |-> << >>] >>]

EmptyCell == [cell_type |-> "code", source |-> << >>]

Cells ==
    << Markdown, Markdown, Markdown, Markdown, ImportCell,
       Markdown, Markdown, Markdown, Markdown, EmptyCell >>

-----------------------------------------------------------------------------
VARIABLES
    dtheta,      \* grid index t of the rotation error
    n,           \* number of [X90p-X90p] groups applied
    gates,       \* the gates applied so far, in order
    psi,         \* the qubit state
    X90pPow,     \* product of the notebook's expansion of X90p, once per gate
    cell,        \* index of the next cell to run
    stmt,        \* statements of the current code cell already executed
    namespace,   \* names bound in the kernel
    called,      \* names the notebook's code has called
    outputs,     \* outputs the cells have produced
    executed     \* kinds of the statements executed

qubit == <<dtheta, n, gates, psi, X90pPow>>
kernel == <<cell, stmt, namespace, called, outputs, executed>>
vars == <<dtheta, n, gates, psi, X90pPow,
          cell, stmt, namespace, called, outputs, executed>>

Init ==
    /\ dtheta \in 0..(M - 1)
    /\ n = 0
    /\ gates = << >>
    /\ psi = Ket0
    /\ X90pPow = I2
    /\ cell = 1
    /\ stmt = 0
    /\ namespace = {}
    /\ called = {}
    /\ outputs = << >>
    /\ executed = {}

\* The gate, and the notebook's expansion of it, at every grid point.
Gates == SubSeq([i \in 1..M |-> Gate(i - 1)], 1, M)

Eulers == SubSeq([i \in 1..M |-> X90pEuler(i - 1)], 1, M)

\* One application of the gate to the qubit.
Apply(x, t) == MVec(Gates[t + 1], x)

\* The gates of seq applied in order; every gate of the sequence is X90p.
RECURSIVE Run(_, _, _)
Run(x, seq, t) ==
    IF seq = << >> THEN x ELSE Run(Apply(x, t), Tail(seq), t)

\* The notebook's expansion of X90p composed once per gate of seq.
RECURSIVE Compose(_, _, _)
Compose(W, seq, t) ==
    IF seq = << >> THEN W ELSE Compose(MMul(Eulers[t + 1], W), Tail(seq), t)

\* The sequence X90p-[X90p-X90p]^n starts with one X90p ...
First == <<"X90p">>

\* Faulty variant of Group: groups of one gate.
GroupOfOne == <<"X90p">>

\* ... and continues in groups of two.
Group == <<"X90p", "X90p">>

ApplyX90p ==
    /\ gates = << >>
    /\ gates' = First
    /\ psi' = Run(psi, First, dtheta)
    /\ X90pPow' = Compose(X90pPow, First, dtheta)
    /\ UNCHANGED <<dtheta, n, kernel>>

ApplyGroup ==
    /\ gates # << >>
    /\ n < MaxN
    /\ gates' = gates \o Group
    /\ n' = n + 1
    /\ psi' = Run(psi, Group, dtheta)
    /\ X90pPow' = Compose(X90pPow, Group, dtheta)
    /\ UNCHANGED <<dtheta, kernel>>

\* A markdown cell is rendered; the kernel is not involved.
RenderMarkdown ==
    /\ cell <= Len(Cells)
    /\ Cells[cell].cell_type = "markdown"
    /\ cell' = cell + 1
    /\ UNCHANGED <<stmt, namespace, called, outputs, executed, qubit>>

\* The kernel executes the next statement of the current code cell.
ExecStatement ==
    /\ cell <= Len(Cells)
    /\ Cells[cell].cell_type = "code"
    /\ stmt < Len(Cells[cell].source)
    /\ LET s == Cells[cell].source[stmt + 1]
       IN  /\ namespace' = namespace \cup s.binds
           /\ called' = called \cup s.calls
           /\ outputs' = outputs \o s.out
           /\ executed' = executed \cup {s.kind}
    /\ stmt' = stmt + 1
    /\ UNCHANGED <<cell, qubit>>

\* The code cell has no statement left.
FinishCell ==
    /\ cell <= Len(Cells)
    /\ Cells[cell].cell_type = "code"
    /\ stmt = Len(Cells[cell].source)
    /\ cell' = cell + 1
    /\ stmt' = 0
    /\ UNCHANGED <<namespace, called, outputs, executed, qubit>>

Next ==
    \/ ApplyX90p
    \/ ApplyGroup
    \/ RenderMarkdown
    \/ ExecStatement
    \/ FinishCell

Spec == Init /\ [][Next]_vars

-----------------------------------------------------------------------------
Applied == gates # << >>

TypeOK ==
    /\ dtheta \in 0..(M - 1)
    /\ n \in 0..MaxN
    /\ cell \in 1..(Len(Cells) + 1)

\* Intermediate steps of the derivation: the population is
\* sin^2(n pi/2 + n dtheta + pi/4 + dtheta/2) and
\* 1/2 - 1/2 cos(n pi + 2 n dtheta + pi/2 + dtheta).
DerivationSteps ==
    Applied =>
        /\ Population(psi) = PopSinSquared(n, dtheta)
        /\ Population(psi) = PopCos(n, dtheta)

\* The gate is cos(a) I - i sin(a) sigma_X, a = pi/4 + dtheta/2.
GateEulerWithI ==
    Gate(dtheta) =
        MSub(MScale(Cos(HalfAngle(dtheta)), I2),
             MScale(DMul[DConst(ImagI), Sin(HalfAngle(dtheta))], SigmaX))

\* The state after the sequence is cos(A) |0> - i sin(A) |1>,
\* A = n pi/2 + n dtheta + pi/4 + dtheta/2.
StateEulerWithI ==
    Applied =>
        psi = << Cos(PowAngle(n, dtheta)),
                 DNeg[DMul[DConst(ImagI), Sin(PowAngle(n, dtheta))]] >>

\* The angle of the expansion of X90p^(2n+1) is 2n+1 times the half angle.
PowAngleIsMultiple ==
    PowAngle(n, dtheta) = Times(2 * n + 1, HalfAngle(dtheta))

-----------------------------------------------------------------------------
\* C1: after the 2n+1 gates of the sequence, applied to |0>, the
\* excited-state population is 1/2 + ((-1)^n / 2) sin((2n+1) dtheta), for
\* every n and every dtheta of the grid, in value and in first order around
\* the grid point.
C1_Population ==
    Applied =>
        /\ Len(gates) = 2 * n + 1
        /\ Population(psi) = PopSin(n, dtheta)

C1_Witness ==
    /\ Applied
    /\ n = 2
    /\ dtheta = 1
    /\ Population(psi).v # Rat(1, 1)

\* C2: around dtheta = 0 the population after the 2n+1 gates is, to first
\* order in dtheta, 1/2 + ((-1)^n dtheta / 2) (2n+1).
C2_SmallAngle ==
    (Applied /\ dtheta = 0) =>
        \A err \in SmallErrs :
            FirstOrder(Population(psi), err) = PopSmallAngle(n, err)

C2_Witness ==
    /\ Applied
    /\ dtheta = 0
    /\ n = 2
    /\ FirstOrder(Population(psi), 1) = Rat(2 ^ ErrExp + 5, 1 + ErrExp)

\* The names the import cell binds.
ImportedNames ==
    {"np", "time", "qiskit", "QuantumRegister", "QuantumCircuit",
     "ClassicalRegister", "Aer", "noise", "plot_histogram",
     "complete_meas_cal", "CompleteMeasFitter", "MeasurementFilter"}

IsCode(i) == Cells[i].cell_type = "code"

FirstCodeCell == CHOOSE i \in 1..Len(Cells) :
                    IsCode(i) /\ \A j \in 1..(i - 1) : ~IsCode(j)

LastCodeCell == CHOOSE i \in 1..Len(Cells) :
                    IsCode(i) /\ \A j \in (i + 1)..Len(Cells) : ~IsCode(j)

\* C3: running the cells in order executes only import statements: nothing
\* is called and nothing is output, the first code cell binds the imported
\* names, and the second and last code cell executes no statement.
C3_ImportsOnly ==
    /\ called = {}
    /\ outputs = << >>
    /\ executed \subseteq {"import"}
    /\ (cell < FirstCodeCell => namespace = {})
    /\ (cell > FirstCodeCell => namespace = ImportedNames)
    /\ (cell = LastCodeCell => stmt = 0)
    /\ LastCodeCell = Len(Cells)
    /\ Cardinality({i \in 1..Len(Cells) : IsCode(i)}) = 2

C3_Witness ==
    /\ cell = Len(Cells) + 1
    /\ namespace = ImportedNames
    /\ executed = {"import"}

\* C4: the sequence X90p-[X90p-X90p]^n has exactly 2n+1 gates, an odd
\* number, and every one of them is X90p.
C4_GateCount ==
    Applied =>
        /\ Len(gates) = 2 * n + 1
        /\ Len(gates) % 2 = 1
        /\ \A i \in 1..Len(gates) : gates[i] = "X90p"

C4_Witness ==
    /\ Applied
    /\ n = 2
    /\ Len(gates) = 5

\* C5: the gate exp(-i (pi/2 + dtheta) sigma_X / 2) equals the notebook's
\* expansion cos(pi/4 + dtheta/2) I - sin(pi/4 + dtheta/2) sigma_X.
C5_EulerExpansion == Gate(dtheta) = X90pEuler(dtheta)

\* C6: the form cos(a) I - sin(a) sigma_X composed with itself 2n+1 times
\* is cos((2n+1) a) I - sin((2n+1) a) sigma_X, whose angle is
\* n pi/2 + n dtheta + pi/4 + dtheta/2.
C6_PowerForm ==
    Applied =>
        /\ PowAngle(n, dtheta) = Times(2 * n + 1, HalfAngle(dtheta))
        /\ X90pPow = X90pPowEuler(n, dtheta)

\* Deviation from 1/2 of the first-order population of the state x, at
\* dtheta = err / 2^ErrExp.
Dev(x, err) == Sub[FirstOrder(Population(x), err), Rat(1, 1)]

\* The n = 0 deviation: one gate applied to |0>.
Dev0(err) == Dev(Run(Ket0, First, 0), err)

C7_Deviation ==
    (Applied /\ dtheta = 0) =>
        \A err \in SmallErrs :
            LET d == Dev(psi, err)
            IN  /\ IsRational(d)
                /\ d = Rat(Sgn(n) * err * (2 * n + 1), 1 + ErrExp)
                /\ RatAbs(d) = IntMul[2 * n + 1, RatAbs(Dev0(err))]
                /\ RatSign(d) = Sgn(n) * RatSign(Dev0(err))

C7_Step ==
    (dtheta = 0 /\ Applied /\ n' = n + 1) =>
        \A err \in SmallErrs \ {0} :
            /\ RatLess(RatAbs(Dev(psi, err)), RatAbs(Dev(psi', err)))
            /\ RatSign(Dev(psi', err)) = -RatSign(Dev(psi, err))

\* C7: in the small-angle expression the deviation of the population from
\* 1/2 is (-1)^n dtheta (2n+1) / 2: (2n+1) times the n = 0 deviation in
\* magnitude, with the sign of the n = 0 deviation for even n and the
\* opposite sign for odd n; each added group makes it strictly larger in
\* magnitude and flips its sign, when dtheta # 0.
C7_Amplification == [](C7_Deviation) /\ [][C7_Step]_vars

C7_Witness ==
    /\ Applied
    /\ dtheta = 0
    /\ n = 3
    /\ Dev(psi, 2) = Rat(-7, ErrExp)

\* C8: when dtheta is k quarter turns the population after the 2n+1 gates
\* agrees with 1/2 + ((-1)^n / 2) sin((2n+1) k pi/2): it is 1/2 for even k,
\* 1 for k mod 4 = 1 and 0 for k mod 4 = 3.
C8_QuarterTurns ==
    (Applied /\ dtheta % (M \div 4) = 0) =>
        LET k == dtheta \div (M \div 4)
            p == Population(psi).v
        IN  /\ p = PopSin(n, dtheta).v
            /\ k % 2 = 0 => p = Rat(1, 1)
            /\ k % 4 = 1 => p = One
            /\ k % 4 = 3 => p = Zero

C8_Witness ==
    /\ Applied
    /\ n = 1
    /\ dtheta = 3 * (M \div 4)
    /\ Population(psi).v = Zero

=============================================================================
